---- MODULE Spec2Model ----
(***************************************************************************)
(* Model of synch/reader/mysql.py: the MySQL binlog reader of synch.       *)
(*                                                                         *)
(* One producer process runs Mysql.start_sync.  It resolves the resume     *)
(* position, builds the table sets, then iterates the generator            *)
(* Mysql._binlog_reading, handing every yielded event to broker.send and   *)
(* writing the yielded position to the position store.  The process can be *)
(* stopped at any point by a termination signal (signal_handler calls      *)
(* exit()), by a crash or disconnection, or by an exception of broker.send;*)
(* it is then started again and resumes from the position store.           *)
(***************************************************************************)
EXTENDS Integers, Sequences, FiniteSets, TLC

(***************************************************************************)
(* Bounds of the model.                                                    *)
(***************************************************************************)
\* raw events the source commits to its binlog
MaxLog == 2
\* rows carried by one raw row event
MaxRows == 2
\* times the producer process is stopped (signal, crash, send failure, error)
MaxStops == 1
\* raw events per binlog file before the source rotates to the next file
EventsPerFile == 1

\* Python's None for names; a position that is absent or falsy is NoPos
None == "None"
NoPos == <<>>

(***************************************************************************)
(* Replication positions: (log_file, log_pos).  PosOf(i) is the position   *)
(* the decoder reports after raw event i was consumed; PosOf(0) is the     *)
(* start of the first binlog file.  Offsets restart in every file.         *)
(***************************************************************************)
PosOf(i) ==
    IF i = 0 THEN <<1, 4>>
    ELSE <<1 + ((i - 1) \div EventsPerFile), 4 + 100 * (((i - 1) % EventsPerFile) + 1)>>

\* (log_file, log_offset) order: file first, then offset
PosLE(p, q) == p[1] < q[1] \/ (p[1] = q[1] /\ p[2] <= q[2])

PosLT(p, q) == PosLE(p, q) /\ p # q

\* index of the raw event whose end position is p (resume_stream at log_file, log_pos)
IndexOf(p) == CHOOSE i \in 0..(MaxLog + 1) : PosOf(i) = p

(***************************************************************************)
(* Configuration (source_db) and the source's metadata.                    *)
(***************************************************************************)
Schemas == {"s1", "s2", "s3"}
Tables == {"t1", "t2"}
PkShapes == {"single", "absent", "composite"}

\* f"{schema}.{table}"
TableName(schema, table) == <<schema, table>>

\* source_db["databases"]: database name -> configured tables
DatabaseLayouts ==
    { [s \in {"s1", "s2"} |-> IF s = "s1" THEN {"t1"} ELSE {"t2"}],
      [s \in {"s1", "s2"} |-> IF s = "s1" THEN {"t1"} ELSE {}] }

\* source_db.get("skip_delete_tables"): absent, a list or a set of names
SkipContainers ==
    { [kind |-> None, items |-> {}],
      [kind |-> "list", items |-> {}],
      [kind |-> "list", items |-> {TableName("s1", "t1")}],
      [kind |-> "set", items |-> {TableName("s2", "t2")}] }

SourceDbs ==
    [ databases : DatabaseLayouts,
      init_binlog_file : {0, 1},
      init_binlog_pos : {0, 4},
      skip_dmls : {{}, {"update"}, {"delete"}, {"insert"}},
      skip_delete_tables : SkipContainers,
      skip_update_tables : {{}, {TableName("s1", "t1")}} ]

\* the configured (schema, table) pairs of a layout
Configured(databases) ==
    {st \in Schemas \X Tables : st[1] \in DOMAIN databases /\ st[2] \in databases[st[1]]}

(***************************************************************************)
(* Raw binlog events (only_events: the three row events and QueryEvent).   *)
(***************************************************************************)
RowEvents ==
    [ type : {"WriteRowsEvent", "UpdateRowsEvent", "DeleteRowsEvent"},
      schema : Schemas, table : Tables, rows : 1..MaxRows, query : {None},
      alters : {None} ]

\* a statement is classified by what the reader can observe of it: whether it
\* holds "alter" and what the conversion makes of it; alters is the table the
\* statement names, which the reader never looks at
QueryEvents ==
    [ type : {"QueryEvent"}, schema : Schemas, table : {None}, rows : {0},
      query : {"create", "alter_ok", "alter_raise", "alter_empty"},
      alters : {"t1", "t3"} ]

RawEvents == RowEvents \cup QueryEvents

VARIABLES
    source_db,          \* the configuration of the source
    workload,           \* the raw events the source's clients commit
    primary_key,        \* the source's metadata: pk shape per table
    binlog,             \* the source's binlog: sequence of raw events
    pos_handler,        \* the position store: NoPos or <<log_file, log_pos>>
    pc,                 \* where the producer process is
    skip_delete_tables, \* self.skip_delete_tables of the running process
    stream_idx,         \* raw events consumed by the stream of this run
    yield_idx,          \* canonical event of the current raw event yielded
    sent,               \* history: events handed to broker.send, in order
    run,                \* number of the current run of start_sync
    start_idx,          \* raw events before the resume position of this run
    first_idx,          \* history: start_idx of the first run
    stops,              \* number of runs that were stopped
    last_stop           \* how the last stopped run ended

vars == <<source_db, workload, primary_key, binlog, pos_handler, pc, skip_delete_tables,
          stream_idx, yield_idx, sent, run, start_idx, first_idx, stops, last_stop>>

(***************************************************************************)
(* Mysql.__init__, lines 38-42.                                            *)
(***************************************************************************)
\* self.skip_dmls = source_db.get("skip_dmls") or []
skip_dmls == source_db.skip_dmls

\* self.skip_update_tables = source_db.get("skip_update_tables") or []
skip_update_tables == source_db.skip_update_tables

\* self.skip_delete_tables = source_db.get("skip_delete_tables") or []:
\* an absent or empty value becomes the list []
InitSkipDeleteTables(db) ==
    IF db.skip_delete_tables.kind = None \/ db.skip_delete_tables.items = {}
    THEN [kind |-> "list", items |-> {}]
    ELSE db.skip_delete_tables

\* self.databases
databases == DOMAIN source_db.databases

(***************************************************************************)
(* Collaborators of the reader.                                            *)
(***************************************************************************)
\* RedisLogPos.get_log_pos
get_log_pos == pos_handler

\* Mysql.get_binlog_pos: "show master status", the head of the binlog
get_binlog_pos == PosOf(Len(binlog))

\* Mysql.get_primary_key: None, a column name or a tuple of column names
get_primary_key(db, table) == primary_key[<<db, table>>]

\* SqlConvert.to_clickhouse(schema, query)
to_clickhouse(schema, query) ==
    CASE query = "alter_ok" -> [raised |-> FALSE, sql |-> "alter table on cluster"]
      [] query = "alter_empty" -> [raised |-> FALSE, sql |-> ""]
      [] OTHER -> [raised |-> TRUE, sql |-> ""]

(***************************************************************************)
(* start_sync, lines 75-83: the resume position.                           *)
(***************************************************************************)
\* variant: the operator's initial position is taken before the persisted one
ResumePosition_init_first ==
    IF source_db.init_binlog_file # 0 /\ source_db.init_binlog_pos # 0
    THEN <<source_db.init_binlog_file, source_db.init_binlog_pos>>
    ELSE IF get_log_pos # NoPos THEN get_log_pos ELSE get_binlog_pos

\* variant: the operator's initial position is never used
ResumePosition_head_first ==
    IF get_log_pos # NoPos THEN get_log_pos ELSE get_binlog_pos

\* the position start_sync resumes from
ResumePosition ==
    IF get_log_pos # NoPos
    THEN get_log_pos
    ELSE IF source_db.init_binlog_file # 0 /\ source_db.init_binlog_pos # 0
         THEN <<source_db.init_binlog_file, source_db.init_binlog_pos>>
         ELSE get_binlog_pos

(***************************************************************************)
(* start_sync, lines 86-100: the table sets and the automatic skips.       *)
(***************************************************************************)
\* schema_tables: only databases with at least one table get an entry
schema_tables ==
    [s \in {d \in databases : source_db.databases[d] # {}} |-> source_db.databases[s]]

only_schemas == databases

only_tables == UNION {source_db.databases[d] : d \in databases}

\* the tables whose primary key is absent or composite
NoSinglePk == {st \in Configured(source_db.databases) : get_primary_key(st[1], st[2]) # "single"}

\* line 97 calls .add, which a list does not have
AddRaises == NoSinglePk # {} /\ InitSkipDeleteTables(source_db).kind = "list"

\* self.skip_delete_tables after the loop of lines 89-98
AutoSkipDeleteTables ==
    [kind |-> InitSkipDeleteTables(source_db).kind,
     items |-> InitSkipDeleteTables(source_db).items
                 \cup {TableName(st[1], st[2]) : st \in NoSinglePk}]

(***************************************************************************)
(* _binlog_reading, lines 138-224.                                         *)
(***************************************************************************)
\* BinLogStreamReader with only_schemas and only_tables: row events of other
\* schemas or tables are consumed without being returned
StreamReturns(ev) ==
    ev.type = "QueryEvent" \/ (ev.schema \in only_schemas /\ ev.table \in only_tables)

CanonicalEvent(table, schema, action, values, seq) ==
    [table |-> table, schema |-> schema, action |-> action, values |-> values,
     action_seq |-> seq]

\* a transformer without the test of line 164: the statement is yielded
\* whatever the conversion made of it
QueryYields_no_empty_check(ev, i) ==
    IF ev.query = "create"
    THEN <<>>
    ELSE LET res == to_clickhouse(ev.schema, ev.query)
             convent_sql == IF res.raised THEN "" ELSE res.sql
         IN  <<CanonicalEvent(None, ev.schema, "query", <<"query", convent_sql>>, 0)>>

\* a transformer that names the altered table in the event
QueryYields_with_table(ev, i) ==
    IF ev.query = "create"
    THEN <<>>
    ELSE LET res == to_clickhouse(ev.schema, ev.query)
             convent_sql == IF res.raised THEN "" ELSE res.sql
         IN  IF convent_sql = ""
             THEN <<>>
             ELSE <<CanonicalEvent(ev.alters, ev.schema, "query", <<"query", convent_sql>>, 0)>>

\* lines 154-174; i is the index of the raw event in the binlog
QueryYields(ev, i) ==
    IF ev.query = "create"
    THEN <<>>
    ELSE LET res == to_clickhouse(ev.schema, ev.query)
             convent_sql == IF res.raised THEN "" ELSE res.sql
         IN  IF convent_sql = ""
             THEN <<>>
             ELSE <<CanonicalEvent(None, ev.schema, "query", <<"query", convent_sql>>, 0)>>

\* variant: the insert of an update is yielded before its delete
RowYields_insert_first(ev, i, r, dmls, delete_tables, update_tables) ==
    LET name == TableName(ev.schema, ev.table) IN
    CASE ev.type = "WriteRowsEvent" ->
           <<CanonicalEvent(ev.table, ev.schema, "insert", <<i, r, "values">>, 2)>>
      [] ev.type = "UpdateRowsEvent" ->
           IF "update" \in dmls \/ name \in update_tables
           THEN <<>>
           ELSE <<CanonicalEvent(ev.table, ev.schema, "insert", <<i, r, "after_values">>, 2),
                  CanonicalEvent(ev.table, ev.schema, "delete", <<i, r, "before_values">>, 1)>>
      [] ev.type = "DeleteRowsEvent" ->
           IF "delete" \in dmls \/ name \in delete_tables
           THEN <<>>
           ELSE <<CanonicalEvent(ev.table, ev.schema, "delete", <<i, r, "values">>, 1)>>

\* a transformer that tests an update against the delete tables and a delete
\* against the update tables
RowYields_tables_swapped(ev, i, r, dmls, delete_tables, update_tables) ==
    LET name == TableName(ev.schema, ev.table) IN
    CASE ev.type = "WriteRowsEvent" ->
           <<CanonicalEvent(ev.table, ev.schema, "insert", <<i, r, "values">>, 2)>>
      [] ev.type = "UpdateRowsEvent" ->
           IF "update" \in dmls \/ name \in delete_tables
           THEN <<>>
           ELSE <<CanonicalEvent(ev.table, ev.schema, "delete", <<i, r, "before_values">>, 1),
                  CanonicalEvent(ev.table, ev.schema, "insert", <<i, r, "after_values">>, 2)>>
      [] ev.type = "DeleteRowsEvent" ->
           IF "delete" \in dmls \/ name \in update_tables
           THEN <<>>
           ELSE <<CanonicalEvent(ev.table, ev.schema, "delete", <<i, r, "values">>, 1)>>

\* lines 180-224 for one row; the values of row r of raw event i are
\* <<i, r, "values">>, <<i, r, "before_values">> and <<i, r, "after_values">>
RowYields(ev, i, r, dmls, delete_tables, update_tables) ==
    LET name == TableName(ev.schema, ev.table) IN
    CASE ev.type = "WriteRowsEvent" ->
           <<CanonicalEvent(ev.table, ev.schema, "insert", <<i, r, "values">>, 2)>>
      [] ev.type = "UpdateRowsEvent" ->
           IF "update" \in dmls \/ name \in update_tables
           THEN <<>>
           ELSE <<CanonicalEvent(ev.table, ev.schema, "delete", <<i, r, "before_values">>, 1),
                  CanonicalEvent(ev.table, ev.schema, "insert", <<i, r, "after_values">>, 2)>>
      [] ev.type = "DeleteRowsEvent" ->
           IF "delete" \in dmls \/ name \in delete_tables
           THEN <<>>
           ELSE <<CanonicalEvent(ev.table, ev.schema, "delete", <<i, r, "values">>, 1)>>

RECURSIVE RowsYield(_, _, _, _, _, _)
\* the loop of line 179 over rows r..ev.rows
RowsYield(ev, i, r, dmls, delete_tables, update_tables) ==
    IF r > ev.rows
    THEN <<>>
    ELSE RowYields(ev, i, r, dmls, delete_tables, update_tables)
           \o RowsYield(ev, i, r + 1, dmls, delete_tables, update_tables)

\* a transformer that emits the last event of a raw event first
binlog_reading_last_first(ev, i, dmls, delete_tables, update_tables) ==
    IF ev.type = "QueryEvent"
    THEN QueryYields(ev, i)
    ELSE LET ys == RowsYield(ev, i, 1, dmls, delete_tables, update_tables) IN
         IF Len(ys) > 1 THEN <<ys[Len(ys)]>> \o SubSeq(ys, 1, Len(ys) - 1) ELSE ys

\* everything the generator yields while raw event i is the current event
binlog_reading(ev, i, dmls, delete_tables, update_tables) ==
    IF ev.type = "QueryEvent"
    THEN QueryYields(ev, i)
    ELSE RowsYield(ev, i, 1, dmls, delete_tables, update_tables)

\* the yields of raw event i in the running process
Yields(i) ==
    binlog_reading(binlog[i], i, skip_dmls, skip_delete_tables.items, skip_update_tables)

\* a dispatch loop that looks up the table of an event that has none
NotConfigured_none_table(schema, table) ==
    IF schema \notin DOMAIN schema_tables
    THEN TRUE
    ELSE table \notin schema_tables[schema]

\* a dispatch loop that looks the table up among the tables of all schemas
NotConfigured_any_schema(schema, table) ==
    IF schema \notin DOMAIN schema_tables
    THEN TRUE
    ELSE table # None /\ table \notin only_tables

\* line 111: the event is dropped by the dispatch loop
NotConfigured(schema, table) ==
    IF schema \notin DOMAIN schema_tables
    THEN TRUE
    ELSE table # None /\ table \notin schema_tables[schema]

(***************************************************************************)
(* The state of the generator and of the dispatch loop.                    *)
(***************************************************************************)
Running == pc \in {"resolved", "reading", "yielded", "sent"}

\* the canonical event the generator has yielded to the dispatch loop
Current == Yields(stream_idx)[yield_idx]

\* the generator is resumed: it yields the next event of the raw event, or
\* goes back to the stream for the next raw event
ResumeGenerator ==
    IF yield_idx < Len(Yields(stream_idx))
    THEN pc' = "yielded" /\ yield_idx' = yield_idx + 1
    ELSE pc' = "reading" /\ yield_idx' = 0

Stop(how) ==
    /\ stops < MaxStops
    /\ stops' = stops + 1
    /\ last_stop' = how
    /\ pc' = "stopped"

(***************************************************************************)
(* The source.                                                             *)
(***************************************************************************)
\* a client of the source commits a mutation or a statement
Commit ==
    /\ Len(binlog) < MaxLog
    /\ \E ev \in workload : binlog' = Append(binlog, ev)
    /\ UNCHANGED <<source_db, workload, primary_key, pos_handler, pc, skip_delete_tables,
                   stream_idx, yield_idx, sent, run, start_idx, first_idx, stops, last_stop>>

(***************************************************************************)
(* Mysql.start_sync.                                                       *)
(***************************************************************************)
\* a process is started: __init__ and lines 75-84
ResolveStart ==
    /\ pc \in {"new", "stopped"}
    /\ run <= MaxStops
    /\ pos_handler' = IF get_log_pos = NoPos THEN ResumePosition ELSE pos_handler
    /\ start_idx' = IndexOf(ResumePosition)
    /\ first_idx' = IF pc = "new" THEN IndexOf(ResumePosition) ELSE first_idx
    /\ skip_delete_tables' = InitSkipDeleteTables(source_db)
    /\ run' = run + 1
    /\ stream_idx' = IndexOf(ResumePosition)
    /\ yield_idx' = 0
    /\ pc' = "resolved"
    /\ UNCHANGED <<source_db, workload, primary_key, binlog, sent, stops, last_stop>>

\* lines 86-100, up to the creation of the generator
BuildTables ==
    /\ pc = "resolved"
    /\ IF AddRaises
       THEN /\ pc' = "stopped"
            /\ last_stop' = "error"
            /\ stops' = IF stops < MaxStops THEN stops + 1 ELSE stops
            /\ UNCHANGED skip_delete_tables
       ELSE /\ skip_delete_tables' = AutoSkipDeleteTables
            /\ pc' = "reading"
            /\ UNCHANGED <<stops, last_stop>>
    /\ UNCHANGED <<source_db, workload, primary_key, binlog, pos_handler, stream_idx,
                   yield_idx, sent, run, start_idx, first_idx>>

\* line 153: the stream returns the next raw event and the generator runs up
\* to its first yield, or back to the stream when the event yields nothing
\* variant: the table of the event read is added to the delete-skip set
Fetch_adds_table ==
    /\ pc = "reading"
    /\ stream_idx < Len(binlog)
    /\ stream_idx' = stream_idx + 1
    /\ IF StreamReturns(binlog[stream_idx + 1]) /\ Yields(stream_idx + 1) # <<>>
       THEN pc' = "yielded" /\ yield_idx' = 1
       ELSE pc' = "reading" /\ yield_idx' = 0
    /\ skip_delete_tables' =
          [skip_delete_tables EXCEPT
             !.items = @ \cup {TableName(binlog[stream_idx + 1].schema,
                                         binlog[stream_idx + 1].table)}]
    /\ UNCHANGED <<source_db, workload, primary_key, binlog, pos_handler,
                   sent, run, start_idx, first_idx, stops, last_stop>>

Fetch ==
    /\ pc = "reading"
    /\ stream_idx < Len(binlog)
    /\ stream_idx' = stream_idx + 1
    /\ IF StreamReturns(binlog[stream_idx + 1]) /\ Yields(stream_idx + 1) # <<>>
       THEN pc' = "yielded" /\ yield_idx' = 1
       ELSE pc' = "reading" /\ yield_idx' = 0
    /\ UNCHANGED <<source_db, workload, primary_key, binlog, pos_handler, skip_delete_tables,
                   sent, run, start_idx, first_idx, stops, last_stop>>

\* variant: the position is written for a dropped event too
Discard_writes ==
    /\ pc = "yielded"
    /\ NotConfigured(Current.schema, Current.table)
    /\ pos_handler' = PosOf(stream_idx)
    /\ ResumeGenerator
    /\ UNCHANGED <<source_db, workload, primary_key, binlog, skip_delete_tables,
                   stream_idx, sent, run, start_idx, first_idx, stops, last_stop>>

\* lines 111-112: the event is not of a configured table
Discard ==
    /\ pc = "yielded"
    /\ NotConfigured(Current.schema, Current.table)
    /\ ResumeGenerator
    /\ UNCHANGED <<source_db, workload, primary_key, binlog, pos_handler, skip_delete_tables,
                   stream_idx, sent, run, start_idx, first_idx, stops, last_stop>>

\* variant: the position yielded with an event is the position of the raw
\* event only for the last event derived from it
Send_row_position ==
    /\ pc = "yielded"
    /\ ~NotConfigured(Current.schema, Current.table)
    /\ sent' = Append(sent, [event |-> Current, raw |-> stream_idx, k |-> yield_idx,
                             file_pos |-> IF yield_idx < Len(Yields(stream_idx))
                                          THEN PosOf(stream_idx - 1)
                                          ELSE PosOf(stream_idx),
                             run |-> run, ckpt |-> pos_handler])
    /\ pc' = "sent"
    /\ UNCHANGED <<source_db, workload, primary_key, binlog, pos_handler, skip_delete_tables,
                   stream_idx, yield_idx, run, start_idx, first_idx, stops, last_stop>>

\* line 113: broker.send returns
Send ==
    /\ pc = "yielded"
    /\ ~NotConfigured(Current.schema, Current.table)
    /\ sent' = Append(sent, [event |-> Current, raw |-> stream_idx, k |-> yield_idx,
                             file_pos |-> PosOf(stream_idx), run |-> run,
                             ckpt |-> pos_handler])
    /\ pc' = "sent"
    /\ UNCHANGED <<source_db, workload, primary_key, binlog, pos_handler, skip_delete_tables,
                   stream_idx, yield_idx, run, start_idx, first_idx, stops, last_stop>>

\* variant: the position is written before the send is known to have worked
SendFails_writes ==
    /\ pc = "yielded"
    /\ ~NotConfigured(Current.schema, Current.table)
    /\ pos_handler' = PosOf(stream_idx)
    /\ Stop("send")
    /\ UNCHANGED <<source_db, workload, primary_key, binlog, skip_delete_tables,
                   stream_idx, yield_idx, sent, run, start_idx, first_idx>>

\* line 113: broker.send raises; the exception ends start_sync
SendFails ==
    /\ pc = "yielded"
    /\ ~NotConfigured(Current.schema, Current.table)
    /\ Stop("send")
    /\ UNCHANGED <<source_db, workload, primary_key, binlog, pos_handler, skip_delete_tables,
                   stream_idx, yield_idx, sent, run, start_idx, first_idx>>

\* variant: the position is not written
SetLogPos_no_write ==
    /\ pc = "sent"
    /\ ResumeGenerator
    /\ UNCHANGED <<source_db, workload, primary_key, binlog, pos_handler, skip_delete_tables,
                   stream_idx, sent, run, start_idx, first_idx, stops, last_stop>>

\* line 114: the position yielded with the event is written, then the
\* generator is resumed
SetLogPos ==
    /\ pc = "sent"
    /\ pos_handler' = sent[Len(sent)].file_pos
    /\ ResumeGenerator
    /\ UNCHANGED <<source_db, workload, primary_key, binlog, skip_delete_tables,
                   stream_idx, sent, run, start_idx, first_idx, stops, last_stop>>

\* lines 68-72: a termination signal is handled between two bytecodes
signal_handler ==
    /\ Running
    /\ Stop("signal")
    /\ UNCHANGED <<source_db, workload, primary_key, binlog, pos_handler, skip_delete_tables,
                   stream_idx, yield_idx, sent, run, start_idx, first_idx>>

\* the process is killed or loses its connection to the source
Crash ==
    /\ Running
    /\ Stop("crash")
    /\ UNCHANGED <<source_db, workload, primary_key, binlog, pos_handler, skip_delete_tables,
                   stream_idx, yield_idx, sent, run, start_idx, first_idx>>

Next ==
    \/ Commit
    \/ ResolveStart
    \/ BuildTables
    \/ Fetch
    \/ Discard
    \/ Send
    \/ SendFails
    \/ SetLogPos
    \/ signal_handler
    \/ Crash

(***************************************************************************)
(* Specifications.                                                         *)
(***************************************************************************)
InitProcess ==
    /\ binlog = <<>>
    /\ pos_handler = NoPos
    /\ pc = "new"
    /\ skip_delete_tables = InitSkipDeleteTables(source_db)
    /\ stream_idx = 0
    /\ yield_idx = 0
    /\ sent = <<>>
    /\ run = 0
    /\ start_idx = 0
    /\ first_idx = 0
    /\ stops = 0
    /\ last_stop = None

\* tables with a single-column primary key and deletes skipped; the binlog is
\* replayed from its start or followed from its head
DeliveryDbs ==
    {db \in SourceDbs :
        /\ db.databases = [s \in {"s1", "s2"} |-> IF s = "s1" THEN {"t1"} ELSE {"t2"}]
        /\ db.skip_dmls = {"delete"}
        /\ (db.init_binlog_pos # 0 => db.init_binlog_file # 0)
        /\ db.skip_delete_tables.kind = None
        /\ db.skip_update_tables = {}}

\* multi-row inserts, updates, skipped deletes, inserts the loop drops, and
\* statements with and without alter
DeliveryWorkload ==
    {ev \in RawEvents :
        \/ ev.type = "WriteRowsEvent" /\ ev.schema = "s1" /\ ev.table = "t1" /\ ev.rows = MaxRows
        \/ ev.type \in {"UpdateRowsEvent", "DeleteRowsEvent"}
             /\ ev.schema = "s1" /\ ev.table = "t1" /\ ev.rows = 1
        \/ ev.type = "WriteRowsEvent" /\ ev.schema = "s2" /\ ev.table = "t1" /\ ev.rows = 1
        \/ ev.type = "QueryEvent" /\ ev.schema = "s1" /\ ev.query \in {"create", "alter_ok"}
             /\ ev.alters = "t1"}

Init ==
    /\ source_db \in DeliveryDbs
    /\ workload = DeliveryWorkload
    /\ primary_key = [st \in Configured(source_db.databases) |-> "single"]
    /\ InitProcess

Spec == Init /\ [][Next]_vars

\* the binlog is replayed from its start; at most one of the skip settings is
\* given; the primary keys of the configured tables have every shape
PolicyDbs ==
    {db \in SourceDbs :
        /\ db.init_binlog_file = 1 /\ db.init_binlog_pos = 4
        /\ Cardinality({x \in {"dmls", "delete", "update"} :
                           \/ x = "dmls" /\ db.skip_dmls # {}
                           \/ x = "delete" /\ db.skip_delete_tables.kind # None
                           \/ x = "update" /\ db.skip_update_tables # {}}) <= 1}

PolicyWorkload ==
    {ev \in RawEvents :
        \/ ev.type # "QueryEvent" /\ ev.rows = 1 /\ ev.schema = "s1" /\ ev.table = "t1"
        \/ ev.type = "DeleteRowsEvent" /\ ev.rows = 1 /\ ev.schema = "s2" /\ ev.table = "t2"
        \/ ev.type = "WriteRowsEvent" /\ ev.rows = 1 /\ ev.schema = "s2" /\ ev.table = "t1"}

InitPolicy ==
    /\ source_db \in PolicyDbs
    /\ workload = PolicyWorkload
    /\ primary_key \in [Configured(source_db.databases) -> PkShapes]
    /\ \A st \in DOMAIN primary_key : st # <<"s1", "t1">> => primary_key[st] = "single"
    /\ InitProcess

SpecPolicy == InitPolicy /\ [][Next]_vars

\* no skip settings, single-column primary keys, the binlog replayed from its
\* start; the second schema has a table or none
DdlDbs ==
    {db \in SourceDbs :
        /\ db.init_binlog_file = 1 /\ db.init_binlog_pos = 4
        /\ db.skip_dmls = {}
        /\ db.skip_delete_tables.kind = None
        /\ db.skip_update_tables = {}}

\* statements of a schema with tables, of a schema listed without tables and
\* of a schema that is not listed, and rows of a configured table
DdlWorkload ==
    {ev \in RawEvents :
        \/ ev.type = "QueryEvent" /\ ev.schema = "s1" /\ ev.alters = "t1"
        \/ ev.type = "QueryEvent" /\ ev.schema = "s1" /\ ev.alters = "t3"
             /\ ev.query = "alter_ok"
        \/ ev.type = "QueryEvent" /\ ev.schema \in {"s2", "s3"} /\ ev.alters = "t1"
             /\ ev.query = "alter_ok"
        \/ ev.type \in {"WriteRowsEvent", "UpdateRowsEvent"}
             /\ ev.schema = "s1" /\ ev.table = "t1" /\ ev.rows = 1}

InitDdl ==
    /\ source_db \in DdlDbs
    /\ workload = DdlWorkload
    /\ primary_key = [st \in Configured(source_db.databases) |-> "single"]
    /\ InitProcess

SpecDdl == InitDdl /\ [][Next]_vars

(***************************************************************************)
(* What an uninterrupted run hands to the sink.                            *)
(***************************************************************************)
\* the yields of raw event i in a process that has finished its start-up
ExpectedYields(i) ==
    binlog_reading(binlog[i], i, skip_dmls, AutoSkipDeleteTables.items, skip_update_tables)

\* the yields of raw event i that pass line 111
ForwardedKs(i) ==
    IF StreamReturns(binlog[i])
    THEN {k \in 1..Len(ExpectedYields(i)) :
            ~NotConfigured(ExpectedYields(i)[k].schema, ExpectedYields(i)[k].table)}
    ELSE {}

\* the (raw event, yield) pairs handed to broker.send so far
Delivered == {<<sent[n].raw, sent[n].k>> : n \in 1..Len(sent)}

SentOfRun(r) == {n \in 1..Len(sent) : sent[n].run = r}

MaxOf(S) == CHOOSE x \in S : \A y \in S : y <= x

(***************************************************************************)
(* C1. Checkpoint-after-send: when the stored position is the position     *)
(* yielded with raw event e, every canonical event of e that the loop      *)
(* forwards has been handed to broker.send.                                *)
(***************************************************************************)
C1_CheckpointAfterSend ==
    \A n \in 1..Len(sent) :
        sent[n].file_pos = pos_handler
            => \A k \in ForwardedKs(sent[n].raw) : <<sent[n].raw, k>> \in Delivered

(***************************************************************************)
(* C2. At-least-once across restarts: once a run has read the whole binlog *)
(* and waits for more, every canonical event an uninterrupted run from the *)
(* first resume position would have sent has been sent at least once.      *)
(***************************************************************************)
C2_AtLeastOnce ==
    (pc = "reading" /\ stream_idx = Len(binlog))
        => \A i \in (first_idx + 1)..Len(binlog) :
              \A k \in ForwardedKs(i) : <<i, k>> \in Delivered

(***************************************************************************)
(* C3 as stated: after the loop has processed the first N >= 1 raw events  *)
(* of the stream, whatever their kinds, the stored position is the         *)
(* position of the N-th raw event.                                         *)
(***************************************************************************)
C3_CheckpointIsNthPosition ==
    (pc = "reading" /\ stream_idx > start_idx) => pos_handler = PosOf(stream_idx)

\* the last raw event of lo+1..hi with a forwarded event, lo when there is none
LastForwarded(lo, hi) == MaxOf({lo} \cup {i \in (lo + 1)..hi : ForwardedKs(i) # {}})

(***************************************************************************)
(* C3 amended: after the loop has processed the first N >= 1 raw events of *)
(* the stream, the stored position is the position of the last of them     *)
(* that had an event handed to broker.send, and the resume position of the *)
(* run when none had.                                                      *)
(***************************************************************************)
C3_CheckpointIsLastForwarded ==
    (pc = "reading" /\ stream_idx > start_idx)
        => pos_handler = PosOf(LastForwarded(start_idx, stream_idx))

C3_Witness ==
    /\ pc = "reading"
    /\ stream_idx >= start_idx + 2
    /\ ForwardedKs(stream_idx) = {}
    /\ ForwardedKs(stream_idx - 1) # {}
    /\ pos_handler = PosOf(stream_idx - 1)

(***************************************************************************)
(* C4. The positions written to the position store, over the start-up      *)
(* write, the streaming writes and the restarts, never decrease in the     *)
(* (log_file, log_offset) order.                                           *)
(***************************************************************************)
C4_PositionsMonotonic ==
    [][pos_handler # NoPos => PosLE(pos_handler, pos_handler')]_vars

C4_Witness ==
    /\ run >= 2
    /\ \E n \in SentOfRun(run) : sent[n].file_pos = pos_handler
    /\ \E m \in 1..Len(sent) : sent[m].run < run /\ PosLT(sent[m].file_pos, pos_handler)

(***************************************************************************)
(* C5. Within a run, every update that is not filtered hands exactly two   *)
(* events per row to the sink, adjacent and in this order: a delete with   *)
(* action_seq 1 and the before-values, then an insert with action_seq 2    *)
(* and the after-values, both of the same schema and table.                *)
(***************************************************************************)
IsUpdate(n) == binlog[sent[n].raw].type = "UpdateRowsEvent"

\* sent[n] and sent[n + 1] are the pair of one row of one update
IsPair(n) ==
    LET d == sent[n]
        a == sent[n + 1]
    IN  /\ d.run = a.run /\ d.raw = a.raw /\ a.k = d.k + 1 /\ d.k % 2 = 1
        /\ d.event.action = "delete" /\ d.event.action_seq = 1
        /\ a.event.action = "insert" /\ a.event.action_seq = 2
        /\ d.event.values = <<d.raw, (d.k + 1) \div 2, "before_values">>
        /\ a.event.values = <<d.raw, (d.k + 1) \div 2, "after_values">>
        /\ d.event.schema = a.event.schema /\ d.event.table = a.event.table
        /\ d.event.schema = binlog[d.raw].schema /\ d.event.table = binlog[d.raw].table

C5_UpdateIsDeleteThenInsert ==
    /\ \A n \in 1..Len(sent) :
          IsUpdate(n) =>
             IF sent[n].event.action = "delete"
             THEN IF n < Len(sent) /\ sent[n + 1].run = sent[n].run
                  THEN IsPair(n)
                  \* the delete is the last event of its run: the run was stopped,
                  \* or the insert is the next event the process sends
                  ELSE (sent[n].run = run /\ pc # "stopped") =>
                          /\ stream_idx = sent[n].raw
                          /\ \/ pc = "sent" /\ yield_idx = sent[n].k
                             \/ pc = "yielded" /\ yield_idx = sent[n].k + 1
             ELSE n > 1 /\ IsPair(n - 1)
    /\ pc = "reading" =>
          \A i \in (start_idx + 1)..stream_idx :
             (binlog[i].type = "UpdateRowsEvent" /\ ForwardedKs(i) # {}) =>
                Cardinality({n \in SentOfRun(run) : sent[n].raw = i}) = 2 * binlog[i].rows

C5_Witness ==
    /\ pc = "reading"
    /\ \E n \in 1..Len(sent) : IsUpdate(n) /\ n < Len(sent) /\ IsPair(n)

(***************************************************************************)
(* C6. For a configured table whose primary key is absent or composite,    *)
(* whatever the skip configuration: start_sync does not fail, no delete    *)
(* and no event derived from an update of that table is handed to the      *)
(* sink, and the rows of its inserts are handed to the sink.               *)
(***************************************************************************)
C6_NoPkSkipsDeleteAndUpdate ==
    /\ \A n \in 1..Len(sent) :
          <<sent[n].event.schema, sent[n].event.table>> \in NoSinglePk
             => binlog[sent[n].raw].type = "WriteRowsEvent"
    /\ NoSinglePk # {} => last_stop # "error"
    /\ pc = "reading" =>
          \A i \in (start_idx + 1)..stream_idx :
             (binlog[i].type = "WriteRowsEvent"
                /\ <<binlog[i].schema, binlog[i].table>> \in NoSinglePk)
             => Cardinality({n \in SentOfRun(run) : sent[n].raw = i}) = binlog[i].rows

(***************************************************************************)
(* C7. A start resumes from the persisted position if there is one, else   *)
(* from the operator's initial file and offset if both are given, else     *)
(* from the head of the source's binlog; the position is in the position   *)
(* store when the first event of the run is handed to the sink, and the    *)
(* stream starts after it.                                                 *)
(***************************************************************************)
InitPosGiven == source_db.init_binlog_file # 0 /\ source_db.init_binlog_pos # 0

C7_ResumePriority ==
    [][ /\ (pc \in {"new", "stopped"} /\ pc' = "resolved") =>
             /\ pos_handler # NoPos => PosOf(stream_idx') = pos_handler
             /\ (pos_handler = NoPos /\ InitPosGiven) =>
                   PosOf(stream_idx') = <<source_db.init_binlog_file, source_db.init_binlog_pos>>
             /\ (pos_handler = NoPos /\ ~InitPosGiven) =>
                   PosOf(stream_idx') = PosOf(Len(binlog))
             /\ pos_handler' = PosOf(stream_idx')
             /\ start_idx' = stream_idx'
        /\ (Len(sent') > Len(sent) /\ SentOfRun(run) = {}) =>
             /\ pos_handler = PosOf(start_idx)
             /\ sent'[Len(sent')].raw > start_idx ]_vars

\* a restarted run resumed from the persisted position although an initial
\* position is configured, and has handed its first event to the sink
C7_Witness ==
    /\ run = 2
    /\ InitPosGiven
    /\ start_idx > 0
    /\ pc = "sent"
    /\ Cardinality(SentOfRun(run)) = 1

(***************************************************************************)
(* C8. An event handed to the queue before a termination signal is handled *)
(* is not handed to the queue again by the run that follows the restart.   *)
(***************************************************************************)
C8_NoRedeliveryAfterSignal ==
    (last_stop = "signal" /\ pc # "stopped") =>
        \A m \in SentOfRun(run - 1) : \A n \in SentOfRun(run) :
            <<sent[m].raw, sent[m].k>> # <<sent[n].raw, sent[n].k>>

(***************************************************************************)
(* C9. When the process has exited through signal_handler, it did not exit *)
(* between a send and its position write, and the raw event in progress    *)
(* has all its events sent and its position written, or its position is    *)
(* not written.                                                            *)
(***************************************************************************)
\* the last event handed to the sink is the one the generator is suspended at
SentNotWritten ==
    /\ yield_idx > 0
    /\ Len(sent) > 0
    /\ sent[Len(sent)].run = run
    /\ sent[Len(sent)].raw = stream_idx
    /\ sent[Len(sent)].k = yield_idx

C9_SignalAtRawEventBoundary ==
    (pc = "stopped" /\ last_stop = "signal") =>
        /\ ~SentNotWritten
        /\ yield_idx > 0 =>
             \/ pos_handler # PosOf(stream_idx)
             \/ \A k \in ForwardedKs(stream_idx) :
                   \E n \in SentOfRun(run) : sent[n].raw = stream_idx /\ sent[n].k = k

(***************************************************************************)
(* C10. After a stop at any point and a restart, an event is handed to the *)
(* sink again only if the position of its raw event was not yet written    *)
(* to the position store, and the events a run sends again all come from   *)
(* one raw event.                                                          *)
(***************************************************************************)
\* sent[n] was handed to the sink before
IsDup(n) == \E m \in 1..(n - 1) : sent[m].raw = sent[n].raw /\ sent[m].k = sent[n].k

C10_OnlyInFlightReplayed ==
    /\ \A n \in 1..Len(sent) : IsDup(n) => PosLT(sent[n].ckpt, sent[n].file_pos)
    /\ \A r \in 1..run : Cardinality({sent[n].raw : n \in {x \in SentOfRun(r) : IsDup(x)}}) <= 1

\* an event was sent again after a raw event before it had been checkpointed
C10_Witness ==
    \E n \in 1..Len(sent) :
        /\ IsDup(n)
        /\ \E m \in 1..(n - 1) : sent[m].raw < sent[n].raw /\ sent[m].run < sent[n].run

(***************************************************************************)
(* C11. A statement without "alter", and a statement with "alter" whose    *)
(* conversion raises or returns empty text, yields no canonical event and  *)
(* does not end the stream: the raw events after it are transformed and    *)
(* dispatched as they would be without it.                                 *)
(***************************************************************************)
\* raw event i is a statement the transformer discards
Discarded(i) ==
    /\ binlog[i].type = "QueryEvent"
    /\ binlog[i].query \in {"create", "alter_raise", "alter_empty"}

\* raw event i was read in the current run after a discarded statement
AfterDiscarded(i) == \E j \in (start_idx + 1)..(i - 1) : Discarded(j)

C11_DiscardedStatementsYieldNothing ==
    /\ \A n \in 1..Len(sent) : ~Discarded(sent[n].raw)
    /\ (pc \in {"reading", "yielded", "sent"} /\ stream_idx > start_idx
          /\ Discarded(stream_idx))
         => pc = "reading" /\ yield_idx = 0
    /\ pc = "reading" =>
         \A i \in (start_idx + 1)..stream_idx :
            AfterDiscarded(i) =>
               \A k \in ForwardedKs(i) :
                  \E n \in SentOfRun(run) :
                     /\ sent[n].raw = i /\ sent[n].k = k
                     /\ sent[n].event = ExpectedYields(i)[k]

\* a row event read after a statement whose conversion raised was sent
C11_Witness ==
    /\ pc = "reading"
    /\ \E i \in (start_idx + 1)..stream_idx :
          /\ \E j \in (start_idx + 1)..(i - 1) :
                binlog[j].type = "QueryEvent" /\ binlog[j].query = "alter_raise"
          /\ binlog[i].type = "UpdateRowsEvent"
          /\ \E n \in SentOfRun(run) : sent[n].raw = i /\ sent[n].k = 2

(***************************************************************************)
(* C12. Every event handed to the sink has action insert, delete or query; *)
(* its sequence is 1 exactly for a delete, 2 exactly for an insert and 0   *)
(* exactly for a query; a query event has no table and its values hold one *)
(* non-empty converted statement.                                          *)
(***************************************************************************)
C12_ActionAndSequence ==
    \A n \in 1..Len(sent) :
        LET e == sent[n].event IN
        /\ e.action \in {"insert", "delete", "query"}
        /\ e.action_seq = 1 <=> e.action = "delete"
        /\ e.action_seq = 2 <=> e.action = "insert"
        /\ e.action_seq = 0 <=> e.action = "query"
        /\ e.action = "query" =>
              /\ e.table = None
              /\ Len(e.values) = 2 /\ e.values[1] = "query" /\ e.values[2] # ""

\* a query, a delete and an insert have been handed to the sink
C12_Witness ==
    \A a \in {"insert", "delete", "query"} :
        \E n \in 1..Len(sent) : sent[n].event.action = a

(***************************************************************************)
(* C13. The forwarding decision for a row event of a configured table      *)
(* depends on the policy sets alone: a delete yields no event exactly when *)
(* "delete" is a skipped kind or schema.table is in the delete-skip set,   *)
(* an update yields no event exactly when "update" is a skipped kind or    *)
(* schema.table is in the update-skip set, and an insert yields one insert *)
(* event for each row whatever the skip sets hold.                         *)
(***************************************************************************)
\* the entries of the current run that come from raw event i
SentOfRaw(i) == {n \in SentOfRun(run) : sent[n].raw = i}

\* raw event i is a row event of a configured table read in the current run
ConfiguredRow(i) ==
    /\ i \in (start_idx + 1)..stream_idx
    /\ binlog[i].type # "QueryEvent"
    /\ <<binlog[i].schema, binlog[i].table>> \in Configured(source_db.databases)

C13_DecisionFromPolicySets ==
    pc = "reading" =>
       \A i \in 1..Len(binlog) :
          ConfiguredRow(i) =>
             LET name == TableName(binlog[i].schema, binlog[i].table) IN
             /\ binlog[i].type = "DeleteRowsEvent" =>
                   (SentOfRaw(i) = {}
                      <=> ("delete" \in skip_dmls \/ name \in skip_delete_tables.items))
             /\ binlog[i].type = "UpdateRowsEvent" =>
                   (SentOfRaw(i) = {}
                      <=> ("update" \in skip_dmls \/ name \in skip_update_tables))
             /\ binlog[i].type = "WriteRowsEvent" =>
                   /\ Cardinality(SentOfRaw(i)) = binlog[i].rows
                   /\ \A n \in SentOfRaw(i) : sent[n].event.action = "insert"

\* a delete of a table in the delete-skip set was dropped and an update of
\* the same table was forwarded in the same run
C13_Witness ==
    /\ pc = "reading"
    /\ \E i, j \in 1..Len(binlog) :
          /\ ConfiguredRow(i) /\ ConfiguredRow(j)
          /\ binlog[i].type = "DeleteRowsEvent" /\ binlog[j].type = "UpdateRowsEvent"
          /\ binlog[i].schema = binlog[j].schema /\ binlog[i].table = binlog[j].table
          /\ TableName(binlog[i].schema, binlog[i].table) \in skip_delete_tables.items
          /\ SentOfRaw(i) = {} /\ Cardinality(SentOfRaw(j)) = 2

(***************************************************************************)
(* C14. A row event whose (schema, table) is not among the configured      *)
(* tables of that schema is never handed to the sink and never becomes the *)
(* stored position, also when a table of the same name is configured       *)
(* under another schema.                                                   *)
(***************************************************************************)
\* raw event i is a row event of a table that is not configured in its schema
ForeignRow(i) ==
    /\ binlog[i].type # "QueryEvent"
    /\ <<binlog[i].schema, binlog[i].table>> \notin Configured(source_db.databases)

C14_ForeignRowsNeverForwarded ==
    /\ \A n \in 1..Len(sent) : ~ForeignRow(sent[n].raw)
    /\ \A i \in (first_idx + 1)..Len(binlog) : ForeignRow(i) => pos_handler # PosOf(i)

\* the loop has passed a row of a table configured under another schema only,
\* and the store still holds the position of the event sent before it
C14_Witness ==
    /\ pc = "reading" /\ stream_idx > start_idx
    /\ ForeignRow(stream_idx)
    /\ binlog[stream_idx].schema \in only_schemas
    /\ binlog[stream_idx].table \in only_tables
    /\ \E n \in SentOfRun(run) :
          sent[n].raw < stream_idx /\ pos_handler = sent[n].file_pos

(***************************************************************************)
(* C15. When broker.send fails, the run ends with the stored position left *)
(* at the value it had before that send, nothing more is sent in that run, *)
(* and the next run resumes from that stored position.                     *)
(***************************************************************************)
C15_SendFailureKeepsCheckpoint ==
    [][/\ (pc = "yielded" /\ last_stop' = "send" /\ stops' = stops + 1)
           => pc' = "stopped" /\ pos_handler' = pos_handler /\ sent' = sent
       /\ (pc = "stopped" /\ last_stop = "send")
           => /\ sent' = sent
              /\ pc' \in {"stopped", "resolved"}
              /\ pc' = "resolved"
                    => /\ pos_handler' = pos_handler
                       /\ stream_idx' = IndexOf(pos_handler)
                       /\ run' = run + 1]_vars

\* a send failed after an event of the run had been sent, and the next run
\* has sent an event that is at or after the last one sent before
C15_Witness ==
    /\ last_stop = "send" /\ run > 1
    /\ SentOfRun(run) # {} /\ SentOfRun(run - 1) # {}
    /\ \A m \in SentOfRun(run - 1) : \A n \in SentOfRun(run) : sent[m].raw <= sent[n].raw

(***************************************************************************)
(* C16. Within one run the events are handed to the sink in source order:  *)
(* the events of an earlier raw event before those of a later one, and the *)
(* events of one raw event row by row, the delete of an update before its  *)
(* paired insert.                                                          *)
(***************************************************************************)
\* sent[m] is emitted before sent[n] by a transformer that reads in order
EmittedBefore(m, n) ==
    \/ sent[m].raw < sent[n].raw
    \/ /\ sent[m].raw = sent[n].raw
       /\ sent[m].event.action # "query" /\ sent[n].event.action # "query"
       /\ \/ sent[m].event.values[2] < sent[n].event.values[2]
          \/ /\ sent[m].event.values[2] = sent[n].event.values[2]
             /\ sent[m].event.values[3] = "before_values"
             /\ sent[n].event.values[3] = "after_values"

C16_SentInSourceOrder ==
    \A m, n \in 1..Len(sent) :
        (m < n /\ sent[m].run = sent[n].run) => EmittedBefore(m, n)

\* one run has sent the rows of a raw event and then an event of a later one
C16_Witness ==
    \E l, m, n \in 1..Len(sent) :
        /\ l < m /\ m < n
        /\ sent[l].run = sent[n].run
        /\ sent[l].raw = sent[m].raw /\ sent[m].raw < sent[n].raw

(***************************************************************************)
(* C17. The filter policy is fixed while a run streams: from the creation  *)
(* of the generator on, no step changes skip_dmls, skip_delete_tables or   *)
(* skip_update_tables, and two raw events of the same kind on the same     *)
(* table read in one run are both forwarded or both not.                   *)
(***************************************************************************)
Streaming == pc \in {"reading", "yielded", "sent"}

SameDecision ==
    \A i, j \in (start_idx + 1)..stream_idx :
        (/\ binlog[i].type # "QueryEvent"
         /\ binlog[i].type = binlog[j].type
         /\ binlog[i].schema = binlog[j].schema
         /\ binlog[i].table = binlog[j].table)
        => (SentOfRaw(i) = {} <=> SentOfRaw(j) = {})

C17_PolicyFixedWhileStreaming ==
    [][/\ Streaming =>
            /\ skip_dmls' = skip_dmls
            /\ skip_delete_tables' = skip_delete_tables
            /\ skip_update_tables' = skip_update_tables
       /\ pc' = "reading" => SameDecision']_vars

\* a run whose delete-skip set holds a table has read two updates or two
\* deletes of one configured table
C17_Witness ==
    /\ pc = "reading"
    /\ skip_delete_tables.items # {}
    /\ \E i, j \in (start_idx + 1)..stream_idx :
          /\ i < j
          /\ binlog[i].type \in {"UpdateRowsEvent", "DeleteRowsEvent"}
          /\ binlog[i].type = binlog[j].type
          /\ binlog[i].schema = binlog[j].schema /\ binlog[i].table = binlog[j].table
          /\ <<binlog[i].schema, binlog[i].table>> \in Configured(source_db.databases)

(***************************************************************************)
(* C18. Every canonical event derived from one raw event is yielded with   *)
(* the same position, the position after the whole raw event: the position *)
(* written after the first event derived from a raw event is the position  *)
(* written after the last one.                                             *)
(***************************************************************************)
C18_OnePositionPerRawEvent ==
    /\ \A n \in 1..Len(sent) : sent[n].file_pos = PosOf(sent[n].raw)
    /\ \A n \in 2..Len(sent) :
          (sent[n - 1].run = sent[n].run /\ sent[n - 1].raw = sent[n].raw)
             => sent[n].ckpt = sent[n].file_pos
    /\ (pc \in {"reading", "yielded"} /\ SentOfRaw(stream_idx) # {})
          => pos_handler = PosOf(stream_idx)

\* the position was written again after the last event of a raw event that
\* gave more than one event
C18_Witness ==
    /\ pc = "reading" /\ Len(sent) > 1
    /\ sent[Len(sent)].run = run /\ sent[Len(sent)].raw = stream_idx
    /\ sent[Len(sent)].k > 1
    /\ sent[Len(sent)].ckpt = pos_handler

(***************************************************************************)
(* C19. A converted statement is handed to the sink exactly when its       *)
(* schema has at least one configured table, whatever table it alters: a   *)
(* statement on a table outside the configured set of a configured schema  *)
(* is forwarded, and a statement of a schema without configured tables is  *)
(* dropped and its position is not written.                                *)
(***************************************************************************)
\* raw event i is a statement the transformer yields as a query event
Converted(i) == binlog[i].type = "QueryEvent" /\ binlog[i].query = "alter_ok"

HasTables(schema) ==
    schema \in DOMAIN source_db.databases /\ source_db.databases[schema] # {}

C19_StatementForwardedBySchema ==
    /\ pc = "reading" =>
          \A i \in (start_idx + 1)..stream_idx :
             Converted(i) => (SentOfRaw(i) # {} <=> HasTables(binlog[i].schema))
    /\ \A n \in 1..Len(sent) :
          sent[n].event.action = "query" => HasTables(sent[n].event.schema)
    /\ \A i \in (first_idx + 1)..Len(binlog) :
          (Converted(i) /\ ~HasTables(binlog[i].schema)) => pos_handler # PosOf(i)

\* one run forwarded a statement on a table that is not configured in its
\* schema and dropped a statement of a listed schema without tables
C19_Witness ==
    /\ pc = "reading"
    /\ \E i, j \in (start_idx + 1)..stream_idx :
          /\ Converted(i) /\ Converted(j)
          /\ HasTables(binlog[i].schema)
          /\ binlog[i].alters \notin source_db.databases[binlog[i].schema]
          /\ SentOfRaw(i) # {}
          /\ binlog[j].schema \in DOMAIN source_db.databases
          /\ ~HasTables(binlog[j].schema)
          /\ SentOfRaw(j) = {}

====
